---- MODULE Spec2Model ----
(***************************************************************************)
(* BlogSphere: the persistence layer for users, posts, likes and comments  *)
(* with its two backends, the flat-file store of src/mainlocal.py (one     *)
(* JSON file per entity kind, read and rewritten whole) and the relational *)
(* store of src/main.py (four PostgreSQL tables).                          *)
(*                                                                         *)
(* A flat file is a sequence of records, a table a set of rows.  File      *)
(* uploads (images, videos), templates and the session cookie are left     *)
(* out: the acting user of a request is any stored user, as load_user      *)
(* resolves the session to a stored record on every request.               *)
(***************************************************************************)
EXTENDS Integers, Sequences, FiniteSets

\* ------------------------------------------------------------- bounds
\* Requests issued in one behaviour of the sequential specifications.
MaxOps == 4
\* Requests issued in one behaviour of the concurrent flat-file specification.
MaxReqs == 3
\* Post ids a request may name: /like/<int:post_id> accepts any integer.
MaxPostId == 2
\* Readings of the clock, 0..MaxTime, in units of which MicrosPerSecond make a
\* second (a datetime has 1000000 of them).
MaxTime == 2
MicrosPerSecond == 2
\* Requests issued in one behaviour under the moving clock.
MaxTimedOps == 3

\* ------------------------------------------------------------- inputs
Usernames == {"alice", "bob"}
Emails    == {"a@x.com", "admin@example.com"}
Passwords == {"pw1", "pw2"}
Contents  == {"c1", "c2"}
Titles    == {"t1"}
PostIds   == 1..MaxPostId
Procs     == {1, 2}

\* The seed user of initialize_data / initialize_database.
AdminName     == "admin"
AdminEmail    == "admin@example.com"
AdminPassword == "admin123"

VARIABLES
  fUsers, fPosts, fLikes, fComments,   \* Users.json, Posts.json, likes.json, Comments.json
  dUsers, dPosts, dLikes, dComments,   \* tables users, posts, likes, comments
  dSeq,                                \* the SERIAL sequence of each table
  now,                                 \* datetime.utcnow(), as read by a request
  req, respF, respD,                   \* last sequential request and each backend's answer
  nops,                                \* requests issued so far
  procs                                \* concurrent requests in flight (flat-file backend)

fileVars == <<fUsers, fPosts, fLikes, fComments>>
dbVars   == <<dUsers, dPosts, dLikes, dComments, dSeq>>
seqVars  == <<req, respF, respD>>
vars     == <<fUsers, fPosts, fLikes, fComments, dUsers, dPosts, dLikes, dComments,
              dSeq, now, req, respF, respD, nops, procs>>

\* ------------------------------------------------------------ helpers
Range(s) == {s[i] : i \in DOMAIN s}

MaxOf(S) == CHOOSE m \in S : \A x \in S : x <= m

MinOf(S) == CHOOSE m \in S : \A x \in S : m <= x

CountOfPost_all(rows, pid) == Len(rows)

\* len([r for r in rows if r['post_id'] == pid])
CountOfPost(rows, pid) == Cardinality({i \in DOMAIN rows : rows[i].post_id = pid})

\* datetime.isoformat(): 'YYYY-MM-DDTHH:MM:SS', followed by '.ffffff' only when
\* the microsecond is not 0.  The fields have fixed widths, so the string is
\* the sequence of the whole seconds and, when present, the microseconds.
isoformat(t) ==
  IF t % MicrosPerSecond = 0 THEN <<t \div MicrosPerSecond>>
  ELSE <<t \div MicrosPerSecond, t % MicrosPerSecond>>

\* datetime.fromisoformat(), as format_datetime reads the string back.
fromisoformat(str) ==
  str[1] * MicrosPerSecond + (IF Len(str) > 1 THEN str[2] ELSE 0)

StrLess_bylength(a, b) == Len(a) < Len(b)

\* a < b on str: at the first position where they differ, or a is a proper
\* prefix of b.
StrLess(a, b) ==
  \E k \in 0..Len(a) :
    /\ k <= Len(b)
    /\ \A i \in 1..k : a[i] = b[i]
    /\ \/ k = Len(a) /\ k < Len(b)
       \/ k < Len(a) /\ k < Len(b) /\ a[k + 1] < b[k + 1]

\* werkzeug's generate_password_hash / check_password_hash: a digest of the
\* password, compared by recomputing it.
generate_password_hash(password) == <<"hash", password>>

check_password_hash_always(h, password) == TRUE

check_password_hash(h, password) == h = generate_password_hash(password)

\* ------------------------------------------------- flat-file primitives
\* load_json_file: the list in the file, or [] when reading or decoding fails.
load_json_file(file, outcome) == IF outcome = "ok" THEN file ELSE <<>>

\* save_json_file: rewrites the whole file.  open(.., 'w') truncates before
\* json.dump writes, so a fault leaves the file as it was (open failed) or
\* truncated (the dump failed), and a truncated file loads as [].  The
\* handlers ignore the True/False that save_json_file returns.
save_json_file(file, data, outcome) ==
  CASE outcome = "ok"        -> data
    [] outcome = "unchanged" -> file
    [] OTHER                 -> <<>>

get_next_id_len(data_list) == Len(data_list) + 1

get_next_id(data_list) ==
  IF data_list = <<>> THEN 1
  ELSE MaxOf({data_list[i].id : i \in DOMAIN data_list}) + 1

AdminUser(id, t) ==
  [id |-> id, username |-> AdminName, email |-> AdminEmail,
   password_hash |-> generate_password_hash(AdminPassword),
   is_admin |-> TRUE, created_at |-> isoformat(t)]

initialize_data_always(users, t) == Append(users, AdminUser(get_next_id(users), t))

\* initialize_data: appends the admin user unless one named 'admin' is stored.
initialize_data(users, t) ==
  IF \E i \in DOMAIN users : users[i].username = AdminName THEN users
  ELSE Append(users, AdminUser(get_next_id(users), t))

\* --------------------------------------------------------- responses
\* What a handler answers: the flashed message (or the JSON error of
\* like_post), and for like_post the branch it took.
Flash(status, msg) == [status |-> status, msg |-> msg]

Liked(b) == [status |-> "success", msg |-> "redirect", liked |-> b]

Identity(u) == [status |-> "identity", id |-> u.id, username |-> u.username,
                is_admin |-> u.is_admin]

InvalidLogin   == Flash("error", "Invalid username or password")
UsernameExists == Flash("error", "Username already exists")
EmailExists    == Flash("error", "Email already exists")
Registered     == Flash("success", "Registration successful! Please login.")
RegisterFailed == Flash("error", "Registration failed. Please try again.")
PostCreated    == Flash("success", "Post created successfully!")
PostFailed     == Flash("error", "Failed to create post. Please try again.")
CommentAdded   == Flash("success", "Comment added successfully!")
CommentFailed  == Flash("error", "Failed to add comment")
LikeFailed     == Flash("error", "Failed to like post")
PostDeleted    == Flash("success", "Post deleted successfully!")
AccessDenied   == Flash("error", "Access denied. Admin privileges required.")
PostNotFound   == Flash("error", "Post not found")
NoResponse     == Flash("none", "")

\* ------------------------------------------ flat-file handlers, pure parts
\* register: the two duplicate checks on the loaded list.
register_check_email_only(users, username, email) ==
  IF \E i \in DOMAIN users : users[i].email = email THEN EmailExists
  ELSE Registered

register_check(users, username, email) ==
  IF \E i \in DOMAIN users : users[i].username = username THEN UsernameExists
  ELSE IF \E i \in DOMAIN users : users[i].email = email THEN EmailExists
  ELSE Registered

register_append_admin(users, username, email, password, t) ==
  Append(users, [id |-> get_next_id(users), username |-> username, email |-> email,
                 password_hash |-> generate_password_hash(password),
                 is_admin |-> TRUE, created_at |-> isoformat(t)])

\* register: the list with the new user appended.
register_append(users, username, email, password, t) ==
  Append(users, [id |-> get_next_id(users), username |-> username, email |-> email,
                 password_hash |-> generate_password_hash(password),
                 is_admin |-> FALSE, created_at |-> isoformat(t)])

\* login: the first stored user of that name, checked against the password.
login_result(users, username, password) ==
  LET hits == {i \in DOMAIN users : users[i].username = username} IN
  IF hits # {} /\ check_password_hash(users[MinOf(hits)].password_hash,
                                      password)
  THEN Identity(users[MinOf(hits)])
  ELSE InvalidLogin

create_post_append(posts, uid, title, content, t) ==
  Append(posts, [id |-> get_next_id(posts), user_id |-> uid, title |-> title,
                 content |-> content, created_at |-> isoformat(t)])

\* like_post: whether the loaded list holds a like of this user on this post.
existing_like(likes, uid, pid) ==
  \E i \in DOMAIN likes : likes[i].user_id = uid /\ likes[i].post_id = pid

like_post_always_add(likes, uid, pid, t) ==
  Append(likes, [id |-> get_next_id(likes), user_id |-> uid, post_id |-> pid,
                 created_at |-> isoformat(t)])

\* like_post: the list with the user's like of the post removed, or added.
like_post_update(likes, uid, pid, t) ==
  IF existing_like(likes, uid, pid)
  THEN SelectSeq(likes, LAMBDA l : ~(l.user_id = uid /\ l.post_id = pid))
  ELSE Append(likes, [id |-> get_next_id(likes), user_id |-> uid, post_id |-> pid,
                      created_at |-> isoformat(t)])

add_comment_append(comments, uid, pid, content, t) ==
  Append(comments, [id |-> get_next_id(comments), user_id |-> uid, post_id |-> pid,
                    content |-> content, created_at |-> isoformat(t)])

\* admin_delete_post: the three filters.
delete_post_refs_keep(rows, pid) == rows

delete_post_refs(rows, pid) == SelectSeq(rows, LAMBDA r : r.post_id # pid)

delete_post_row_all(posts, pid) == <<>>

delete_post_row(posts, pid) == SelectSeq(posts, LAMBDA p : p.id # pid)

\* list.sort(key = created_at): stable, ascending, the keys compared as str.
RECURSIVE InsertByCreatedAt(_, _)
InsertByCreatedAt(sorted, x) ==
  IF sorted = <<>> THEN <<x>>
  ELSE IF StrLess(x.created_at, Head(sorted).created_at) THEN <<x>> \o sorted
  ELSE <<Head(sorted)>> \o InsertByCreatedAt(Tail(sorted), x)

RECURSIVE SortByCreatedAt(_)
SortByCreatedAt(s) ==
  IF s = <<>> THEN <<>>
  ELSE InsertByCreatedAt(SortByCreatedAt(SubSeq(s, 1, Len(s) - 1)), s[Len(s)])

Reverse(s) == [i \in 1..Len(s) |-> s[Len(s) + 1 - i]]

SortByCreatedAtDesc_unsorted(s) == s

\* list.sort(key = created_at, reverse = True): descending, equal keys in
\* their original order.
SortByCreatedAtDesc(s) == Reverse(SortByCreatedAt(Reverse(s)))

UsernameOf(users, uid) ==
  LET hits == {i \in DOMAIN users : users[i].id = uid} IN
  IF hits = {} THEN "Unknown" ELSE users[MinOf(hits)].username

\* get_posts: user_lookup = {u['id']: u for u in users}, then .get(.., {}).
user_lookup(users, uid) ==
  LET hits == {i \in DOMAIN users : users[i].id = uid} IN
  IF hits = {} THEN "Unknown" ELSE users[MaxOf(hits)].username

\* post_detail (flat files): 'Post not found', or the post with its counts
\* and its comments sorted by created_at.
post_detail(posts, users, likes, comments, pid) ==
  LET hits == {i \in DOMAIN posts : posts[i].id = pid} IN
  IF hits = {} THEN PostNotFound
  ELSE LET post_data == posts[MinOf(hits)]
           mine == SelectSeq(comments, LAMBDA c : c.post_id = pid)
       IN [status |-> "success", msg |-> "post_detail",
           post |-> [id |-> post_data.id, user_id |-> post_data.user_id,
                     title |-> post_data.title, content |-> post_data.content,
                     created_at |-> post_data.created_at,
                     author |-> UsernameOf(users, post_data.user_id),
                     like_count |-> CountOfPost(likes, pid),
                     comment_count |-> CountOfPost(comments, pid)],
           comments |-> SortByCreatedAt(
              [i \in DOMAIN mine |->
                 [id |-> mine[i].id, user_id |-> mine[i].user_id,
                  content |-> mine[i].content, created_at |-> mine[i].created_at,
                  author |-> UsernameOf(users, mine[i].user_id)]])]

\* get_posts (flat files): every post with its author and its counts,
\* newest first.
get_posts(posts, users, likes, comments) ==
  SortByCreatedAtDesc(
    [i \in DOMAIN posts |->
       [id |-> posts[i].id, user_id |-> posts[i].user_id, title |-> posts[i].title,
        content |-> posts[i].content, created_at |-> posts[i].created_at,
        author |-> user_lookup(users, posts[i].user_id),
        like_count |-> CountOfPost(likes, posts[i].id),
        comment_count |-> CountOfPost(comments, posts[i].id)]])

\* ------------------------------------------------- relational backend
\* One handler is one transaction on its own connection: its statements in
\* order, then commit.  A statement that breaks a constraint of create_tables
\* (UNIQUE, REFERENCES) raises, the handler's except branch answers, and the
\* uncommitted work is dropped with the connection.  A SERIAL sequence keeps
\* the value an aborted INSERT drew.
Bump(seq, table) == [seq EXCEPT ![table] = @ + 1]

UserRow(id, username, email, password, admin, t) ==
  [id |-> id, username |-> username, email |-> email,
   password_hash |-> generate_password_hash(password), is_admin |-> admin,
   created_at |-> t]

\* UNIQUE(username), UNIQUE(email) of table users.
users_unique_ok(users, row) ==
  \A u \in users : u.username # row.username /\ u.email # row.email

likes_unique_ok_none(likes, row) == TRUE

\* UNIQUE(user_id, post_id) of table likes.
likes_unique_ok(likes, row) ==
  \A l \in likes : ~(l.user_id = row.user_id /\ l.post_id = row.post_id)

\* REFERENCES users(id) / REFERENCES posts(id).
fk_ok(rows, id) == \E r \in rows : r.id = id

\* login (relational): SELECT ... WHERE username = %s, fetchone, check.
db_login_result(users, username, password) ==
  LET hits == {u \in users : u.username = username} IN
  IF hits # {} /\ check_password_hash((CHOOSE u \in hits : TRUE).password_hash, password)
  THEN Identity(CHOOSE u \in hits : TRUE)
  ELSE InvalidLogin

\* post_detail (relational): the post joined to its author, or 'Post not found'.
db_post_detail(posts, users, likes, comments, pid) ==
  LET hits == {p \in posts : p.id = pid /\ \E u \in users : u.id = p.user_id} IN
  IF hits = {} THEN PostNotFound
  ELSE [status |-> "success", msg |-> "post_detail"]

\* get_posts (relational): the rows of posts JOIN users with the two COUNT(*)
\* subqueries.
db_posts_rows(posts, users, likes, comments) ==
  {[id |-> p.id, user_id |-> p.user_id, title |-> p.title, content |-> p.content,
    created_at |-> p.created_at,
    author |-> (CHOOSE u \in users : u.id = p.user_id).username,
    like_count |-> Cardinality({l \in likes : l.post_id = p.id}),
    comment_count |-> Cardinality({c \in comments : c.post_id = p.id})] :
   p \in {q \in posts : \E u \in users : u.id = q.user_id}}

\* ORDER BY created_at DESC / ASC: every order of the rows that the clause
\* allows; rows with equal created_at come in an order the server chooses.
RECURSIVE OrderedBy(_, _)
OrderedBy(rows, desc) ==
  IF rows = {} THEN {<<>>}
  ELSE UNION {{<<r>> \o s : s \in OrderedBy(rows \ {r}, desc)} :
              r \in {x \in rows :
                       \A y \in rows : IF desc THEN x.created_at >= y.created_at
                                       ELSE x.created_at <= y.created_at}}

\* get_posts (relational): the lists it may return.
db_get_posts(posts, users, likes, comments) ==
  OrderedBy(db_posts_rows(posts, users, likes, comments), TRUE)

\* post_detail (relational): the comments of the post joined to their
\* authors, in the orders ORDER BY c.created_at ASC allows.
db_post_comments(comments, users, pid) ==
  OrderedBy({[id |-> c.id, user_id |-> c.user_id, content |-> c.content,
              created_at |-> c.created_at,
              author |-> (CHOOSE u \in users : u.id = c.user_id).username] :
             c \in {d \in comments : d.post_id = pid /\ \E u \in users : u.id = d.user_id}},
            FALSE)

\* current_user of a request: load_user finds the session's user id in the
\* store, and current_user.is_admin is that record's flag.
FileUserIds == {fUsers[i].id : i \in DOMAIN fUsers}
DbUserIds   == {u.id : u \in dUsers}

file_is_admin_anyone(uid) == TRUE

file_is_admin(uid) == \E i \in DOMAIN fUsers : fUsers[i].id = uid /\ fUsers[i].is_admin
db_is_admin(uid)   == \E u \in dUsers : u.id = uid /\ u.is_admin

LoadOutcomes == {"ok", "fault"}
SaveOutcomes == {"ok", "unchanged", "truncated"}
CascadeFiles == {"likes", "comments", "posts"}
AllOk        == [f \in CascadeFiles |-> "ok"]

\* ------------------------------------- flat-file handlers (src/mainlocal.py)
\* Each is the whole handler: load, change, save, answer.  lo and so are what
\* the load and the save of this request run into.
F_register(username, email, password, lo, so) ==
  LET users == load_json_file(fUsers, lo)
      r     == register_check(users, username, email)
  IN /\ respF' = r
     /\ fUsers' = IF r = Registered
                  THEN save_json_file(fUsers,
                         register_append(users, username, email, password, now), so)
                  ELSE fUsers
     /\ UNCHANGED <<fPosts, fLikes, fComments>>

F_login(username, password, lo) ==
  /\ respF' = login_result(load_json_file(fUsers, lo), username, password)
  /\ UNCHANGED fileVars

F_create_post(uid, title, content, lo, so) ==
  /\ fPosts' = save_json_file(fPosts,
                 create_post_append(load_json_file(fPosts, lo), uid, title, content, now),
                 so)
  /\ respF' = PostCreated
  /\ UNCHANGED <<fUsers, fLikes, fComments>>

F_like_post(uid, pid, lo, so) ==
  LET likes == load_json_file(fLikes, lo) IN
  /\ fLikes' = save_json_file(fLikes, like_post_update(likes, uid, pid, now), so)
  /\ respF' = Liked(~existing_like(likes, uid, pid))
  /\ UNCHANGED <<fUsers, fPosts, fComments>>

F_add_comment(uid, pid, content, lo, so) ==
  /\ fComments' = save_json_file(fComments,
                    add_comment_append(load_json_file(fComments, lo), uid, pid, content,
                                       now), so)
  /\ respF' = CommentAdded
  /\ UNCHANGED <<fUsers, fPosts, fLikes>>

F_admin_delete_post(uid, pid, lo, so) ==
  IF ~file_is_admin(uid)
  THEN respF' = AccessDenied /\ UNCHANGED fileVars
  ELSE /\ fLikes' = save_json_file(fLikes,
                      delete_post_refs(load_json_file(fLikes, lo["likes"]), pid),
                      so["likes"])
       /\ fComments' = save_json_file(fComments,
                         delete_post_refs(load_json_file(fComments, lo["comments"]), pid),
                         so["comments"])
       /\ fPosts' = save_json_file(fPosts,
                      delete_post_row(load_json_file(fPosts, lo["posts"]), pid),
                      so["posts"])
       /\ respF' = PostDeleted
       /\ UNCHANGED fUsers

\* -------------------------------------- relational handlers (src/main.py)
D_register(username, email, password) ==
  IF \E u \in dUsers : u.username = username
  THEN respD' = UsernameExists /\ UNCHANGED dbVars
  ELSE IF \E u \in dUsers : u.email = email
  THEN respD' = EmailExists /\ UNCHANGED dbVars
  ELSE LET row == UserRow(dSeq.users + 1, username, email, password, FALSE, now) IN
       /\ dSeq' = Bump(dSeq, "users")
       /\ IF users_unique_ok(dUsers, row)
          THEN dUsers' = dUsers \cup {row} /\ respD' = Registered
          ELSE dUsers' = dUsers /\ respD' = RegisterFailed
       /\ UNCHANGED <<dPosts, dLikes, dComments>>

D_login(username, password) ==
  /\ respD' = db_login_result(dUsers, username, password)
  /\ UNCHANGED dbVars

D_create_post(uid, title, content) ==
  LET row == [id |-> dSeq.posts + 1, user_id |-> uid, title |-> title,
              content |-> content, created_at |-> now] IN
  /\ dSeq' = Bump(dSeq, "posts")
  /\ IF fk_ok(dUsers, uid)
     THEN dPosts' = dPosts \cup {row} /\ respD' = PostCreated
     ELSE dPosts' = dPosts /\ respD' = PostFailed
  /\ UNCHANGED <<dUsers, dLikes, dComments>>

D_like_post(uid, pid) ==
  IF \E l \in dLikes : l.user_id = uid /\ l.post_id = pid
  THEN /\ dLikes' = {l \in dLikes : ~(l.user_id = uid /\ l.post_id = pid)}
       /\ respD' = Liked(FALSE)
       /\ UNCHANGED <<dUsers, dPosts, dComments, dSeq>>
  ELSE LET row == [id |-> dSeq.likes + 1, user_id |-> uid, post_id |-> pid,
                   created_at |-> now] IN
       /\ dSeq' = Bump(dSeq, "likes")
       /\ IF fk_ok(dUsers, uid) /\ fk_ok(dPosts, pid) /\ likes_unique_ok(dLikes, row)
          THEN dLikes' = dLikes \cup {row} /\ respD' = Liked(TRUE)
          ELSE dLikes' = dLikes /\ respD' = LikeFailed
       /\ UNCHANGED <<dUsers, dPosts, dComments>>

D_add_comment(uid, pid, content) ==
  LET row == [id |-> dSeq.comments + 1, user_id |-> uid, post_id |-> pid,
              content |-> content, created_at |-> now] IN
  /\ dSeq' = Bump(dSeq, "comments")
  /\ IF fk_ok(dUsers, uid) /\ fk_ok(dPosts, pid)
     THEN dComments' = dComments \cup {row} /\ respD' = CommentAdded
     ELSE dComments' = dComments /\ respD' = CommentFailed
  /\ UNCHANGED <<dUsers, dPosts, dLikes>>

D_admin_delete_post(uid, pid) ==
  IF ~db_is_admin(uid)
  THEN respD' = AccessDenied /\ UNCHANGED dbVars
  ELSE /\ dLikes' = {l \in dLikes : l.post_id # pid}
       /\ dComments' = {c \in dComments : c.post_id # pid}
       /\ dPosts' = {p \in dPosts : p.id # pid}
       /\ respD' = PostDeleted
       /\ UNCHANGED <<dUsers, dSeq>>

\* ------------------------------------------------------ initial state
\* After startup: initialize_data / initialize_database have seeded the
\* admin user into an empty store.
At(stage, k) == [stage |-> stage, k |-> k]

IdleProc == [pc |-> At("idle", 0), req |-> [op |-> "none"], buf |-> <<>>, resp |-> NoResponse]

Init ==
  /\ fUsers = initialize_data(<<>>, 0)
  /\ fPosts = <<>> /\ fLikes = <<>> /\ fComments = <<>>
  /\ dUsers = {UserRow(1, AdminName, AdminEmail, AdminPassword, TRUE, 0)}
  /\ dPosts = {} /\ dLikes = {} /\ dComments = {}
  /\ dSeq = [users |-> 1, posts |-> 0, likes |-> 0, comments |-> 0]
  /\ now = 0
  /\ req = [op |-> "init"]
  /\ respF = NoResponse /\ respD = NoResponse
  /\ nops = 0
  /\ procs = [p \in Procs |-> IdleProc]

\* --------------------- sequential requests, the same ones to both backends
Issue(r) ==
  /\ nops < MaxOps
  /\ nops' = nops + 1
  /\ req' = r
  /\ UNCHANGED <<now, procs>>

Register ==
  \E username \in Usernames, email \in Emails, password \in Passwords :
    /\ Issue([op |-> "register", username |-> username, email |-> email,
              password |-> password])
    /\ F_register(username, email, password, "ok", "ok")
    /\ D_register(username, email, password)

Login ==
  \E username \in Usernames \cup {AdminName}, password \in Passwords \cup {AdminPassword} :
    /\ Issue([op |-> "login", username |-> username, password |-> password])
    /\ F_login(username, password, "ok")
    /\ D_login(username, password)

CreatePost ==
  \E uid \in FileUserIds \cap DbUserIds, title \in Titles, content \in Contents :
    /\ Issue([op |-> "create_post", uid |-> uid, title |-> title, content |-> content])
    /\ F_create_post(uid, title, content, "ok", "ok")
    /\ D_create_post(uid, title, content)

LikePost ==
  \E uid \in FileUserIds \cap DbUserIds, pid \in PostIds :
    /\ Issue([op |-> "like_post", uid |-> uid, pid |-> pid])
    /\ F_like_post(uid, pid, "ok", "ok")
    /\ D_like_post(uid, pid)

AddComment ==
  \E uid \in FileUserIds \cap DbUserIds, pid \in PostIds, content \in Contents :
    /\ Issue([op |-> "add_comment", uid |-> uid, pid |-> pid, content |-> content])
    /\ F_add_comment(uid, pid, content, "ok", "ok")
    /\ D_add_comment(uid, pid, content)

DeletePost ==
  \E uid \in FileUserIds \cap DbUserIds, pid \in PostIds :
    /\ Issue([op |-> "delete_post", uid |-> uid, pid |-> pid])
    /\ F_admin_delete_post(uid, pid, AllOk, AllOk)
    /\ D_admin_delete_post(uid, pid)

\* The content specification: registrations and the four content requests,
\* one at a time, each answered by both backends.
Next ==
  \/ Register
  \/ CreatePost
  \/ LikePost
  \/ AddComment
  \/ DeletePost

Spec == Init /\ [][Next]_vars

\* The authentication specification: registrations and logins.
NextAuth ==
  \/ Register
  \/ Login

SpecAuth == Init /\ [][NextAuth]_vars

\* ---------------------- concurrent requests on the flat files (mainlocal)
\* Flask serves requests on threads (and on worker processes) and
\* mainlocal.py takes no lock: between the load_json_file and the
\* save_json_file of one request the steps of another may run.  A request in
\* flight is at the load or at the save of the k-th file it rewrites.
RequestFiles(r) ==
  CASE r.op = "register"    -> <<"users">>
    [] r.op = "create_post" -> <<"posts">>
    [] r.op = "like_post"   -> <<"likes">>
    [] r.op = "add_comment" -> <<"comments">>
    [] r.op = "delete_post" -> <<"likes", "comments", "posts">>

FileOf(f) ==
  CASE f = "users"    -> fUsers
    [] f = "posts"    -> fPosts
    [] f = "likes"    -> fLikes
    [] f = "comments" -> fComments

WriteFile(f, data) ==
  /\ fUsers'    = IF f = "users"    THEN data ELSE fUsers
  /\ fPosts'    = IF f = "posts"    THEN data ELSE fPosts
  /\ fLikes'    = IF f = "likes"    THEN data ELSE fLikes
  /\ fComments' = IF f = "comments" THEN data ELSE fComments

\* What the handler of r makes of the list it loaded from file f.
RequestUpdate(r, f, buf) ==
  CASE r.op = "register" ->
         register_append(buf, r.username, r.email, r.password, now)
    [] r.op = "create_post" -> create_post_append(buf, r.uid, r.title, r.content, now)
    [] r.op = "like_post"   -> like_post_update(buf, r.uid, r.pid, now)
    [] r.op = "add_comment" -> add_comment_append(buf, r.uid, r.pid, r.content, now)
    [] r.op = "delete_post" ->
         IF f = "posts" THEN delete_post_row(buf, r.pid) ELSE delete_post_refs(buf, r.pid)

\* What the handler of r answers once its last file is saved.
RequestAnswer(r, buf) ==
  CASE r.op = "register"    -> Registered
    [] r.op = "create_post" -> PostCreated
    [] r.op = "like_post"   -> Liked(~existing_like(buf, r.uid, r.pid))
    [] r.op = "add_comment" -> CommentAdded
    [] r.op = "delete_post" -> PostDeleted

Requests(uids) ==
  [op : {"register"}, username : Usernames, email : Emails, password : {"pw1"}]
  \cup [op : {"create_post"}, uid : uids, title : Titles, content : Contents]
  \cup [op : {"like_post"}, uid : uids, pid : PostIds]
  \cup [op : {"add_comment"}, uid : uids, pid : PostIds, content : Contents]
  \cup [op : {"delete_post"}, uid : uids, pid : PostIds]

Free(p) == procs[p].pc.stage \in {"idle", "done"}

\* A request arrives.  delete_post answers 'Access denied' at once unless
\* current_user.is_admin.
StartRequest(p) ==
  /\ Free(p)
  /\ nops < MaxReqs
  /\ nops' = nops + 1
  /\ \E r \in Requests(FileUserIds) :
       procs' = [procs EXCEPT ![p] =
                   IF r.op = "delete_post" /\ ~file_is_admin(r.uid)
                   THEN [pc |-> At("done", 0), req |-> r, buf |-> <<>>, resp |-> AccessDenied]
                   ELSE [pc |-> At("load", 1), req |-> r, buf |-> <<>>,
                         resp |-> NoResponse]]
  /\ UNCHANGED <<fileVars, dbVars, seqVars, now>>

\* load_json_file of the request's next file; register answers here when the
\* loaded list holds the username or the email.
LoadStep(p) ==
  /\ ~Free(p) /\ procs[p].pc.stage = "load"
  /\ LET r   == procs[p].req
         buf == load_json_file(FileOf(RequestFiles(r)[procs[p].pc.k]), "ok")
     IN procs' = [procs EXCEPT ![p] =
                    IF r.op = "register"
                       /\ register_check(buf, r.username, r.email) # Registered
                    THEN [pc |-> At("done", 0), req |-> r, buf |-> <<>>,
                          resp |-> register_check(buf, r.username, r.email)]
                    ELSE [@ EXCEPT !.pc = At("save", @.k), !.buf = buf]]
  /\ UNCHANGED <<fileVars, dbVars, seqVars, now, nops>>

\* save_json_file of the list the request loaded, changed by its handler.
SaveStep(p) ==
  /\ ~Free(p) /\ procs[p].pc.stage = "save"
  /\ LET r == procs[p].req
         k == procs[p].pc.k
         f == RequestFiles(r)[k]
     IN /\ WriteFile(f, save_json_file(FileOf(f), RequestUpdate(r, f, procs[p].buf), "ok"))
        /\ procs' = [procs EXCEPT ![p] =
                       IF k < Len(RequestFiles(r))
                       THEN [@ EXCEPT !.pc = At("load", k + 1), !.buf = <<>>]
                       ELSE [pc |-> At("done", 0), req |-> r, buf |-> <<>>,
                             resp |-> RequestAnswer(r, procs[p].buf)]]
  /\ UNCHANGED <<dbVars, seqVars, now, nops>>

NextFile == \E p \in Procs : StartRequest(p) \/ LoadStep(p) \/ SaveStep(p)

SpecFile == Init /\ [][NextFile]_vars

\* ------------------------- sequential requests on faulty flat files
\* One request at a time on the flat files, where every load_json_file may
\* fail (it then returns []) and every save_json_file may fail (it then
\* returns False, which no handler looks at).
IssueFile(r) ==
  /\ Issue(r)
  /\ UNCHANGED <<dbVars, respD>>

FaultyRegister ==
  \E username \in Usernames, email \in Emails, password \in {"pw1"},
     lo \in LoadOutcomes, so \in SaveOutcomes :
    /\ IssueFile([op |-> "register", username |-> username, email |-> email,
                  password |-> password])
    /\ F_register(username, email, password, lo, so)

FaultyCreatePost ==
  \E uid \in FileUserIds, title \in Titles, content \in Contents,
     lo \in LoadOutcomes, so \in SaveOutcomes :
    /\ IssueFile([op |-> "create_post", uid |-> uid, title |-> title,
                  content |-> content])
    /\ F_create_post(uid, title, content, lo, so)

FaultyLikePost ==
  \E uid \in FileUserIds, pid \in PostIds, lo \in LoadOutcomes, so \in SaveOutcomes :
    /\ IssueFile([op |-> "like_post", uid |-> uid, pid |-> pid])
    /\ F_like_post(uid, pid, lo, so)

FaultyAddComment ==
  \E uid \in FileUserIds, pid \in PostIds, content \in Contents,
     lo \in LoadOutcomes, so \in SaveOutcomes :
    /\ IssueFile([op |-> "add_comment", uid |-> uid, pid |-> pid, content |-> content])
    /\ F_add_comment(uid, pid, content, lo, so)

FaultyDeletePost ==
  \E uid \in FileUserIds, pid \in PostIds,
     lo \in [CascadeFiles -> LoadOutcomes], so \in [CascadeFiles -> SaveOutcomes] :
    /\ IssueFile([op |-> "delete_post", uid |-> uid, pid |-> pid])
    /\ F_admin_delete_post(uid, pid, lo, so)

NextFault ==
  \/ FaultyRegister
  \/ FaultyCreatePost
  \/ FaultyLikePost
  \/ FaultyAddComment
  \/ FaultyDeletePost

SpecFault == Init /\ [][NextFault]_vars

\* ------------------------------------------------ startups and restarts
\* The store of a fresh deployment: no file and no row yet, the server not
\* started.
InitBoot ==
  /\ fUsers = <<>> /\ fPosts = <<>> /\ fLikes = <<>> /\ fComments = <<>>
  /\ dUsers = {} /\ dPosts = {} /\ dLikes = {} /\ dComments = {}
  /\ dSeq = [users |-> 0, posts |-> 0, likes |-> 0, comments |-> 0]
  /\ now = 0
  /\ req = [op |-> "boot"]
  /\ respF = NoResponse /\ respD = NoResponse
  /\ nops = 0
  /\ procs = [p \in Procs |-> IdleProc]

\* mainlocal's __main__: initialize_data(), then app.run.  Users.json is
\* saved only when the admin user was appended to the loaded list.
F_initialize_data(lo, so) ==
  LET users  == load_json_file(fUsers, lo)
      seeded == initialize_data(users, now)
  IN /\ fUsers' = IF seeded = users THEN fUsers
                  ELSE save_json_file(fUsers, seeded, so)
     /\ UNCHANGED <<fPosts, fLikes, fComments>>

\* main's __main__: initialize_database(), then app.run.  An INSERT that
\* breaks UNIQUE raises and the process exits.
D_initialize_database ==
  IF \E u \in dUsers : u.username = AdminName
  THEN UNCHANGED dbVars
  ELSE LET row == UserRow(dSeq.users + 1, AdminName, AdminEmail, AdminPassword, TRUE, now)
       IN /\ dSeq' = Bump(dSeq, "users")
          /\ dUsers' = IF users_unique_ok(dUsers, row) THEN dUsers \cup {row} ELSE dUsers
          /\ UNCHANGED <<dPosts, dLikes, dComments>>

\* The server is started, or started again, on the store as it is.
Startup ==
  /\ Issue([op |-> "startup"])
  /\ F_initialize_data("ok", "ok")
  /\ D_initialize_database
  /\ UNCHANGED <<respF, respD>>

\* Requests are served once the server has started.
RegisterWhenStarted == req.op # "boot" /\ Register

LoginWhenStarted == req.op # "boot" /\ Login

NextStart ==
  \/ Startup
  \/ RegisterWhenStarted
  \/ LoginWhenStarted

SpecStart == InitBoot /\ [][NextStart]_vars

\* ------------------ sequential requests on flat files that fail to load
\* One request or one restart at a time on the flat files, where a file may
\* be unreadable or undecodable when load_json_file opens it (it then returns
\* []) and every save_json_file succeeds.  The request records what its load
\* ran into.
LoadFaultRegister ==
  \E username \in Usernames, email \in Emails, password \in {"pw1"}, lo \in LoadOutcomes :
    /\ IssueFile([op |-> "register", username |-> username, email |-> email,
                  password |-> password, load |-> lo])
    /\ F_register(username, email, password, lo, "ok")

LoadFaultCreatePost ==
  \E uid \in FileUserIds, title \in Titles, content \in {"c1"}, lo \in LoadOutcomes :
    /\ IssueFile([op |-> "create_post", uid |-> uid, title |-> title,
                  content |-> content, load |-> lo])
    /\ F_create_post(uid, title, content, lo, "ok")

LoadFaultLikePost ==
  \E uid \in FileUserIds, pid \in PostIds, lo \in LoadOutcomes :
    /\ IssueFile([op |-> "like_post", uid |-> uid, pid |-> pid, load |-> lo])
    /\ F_like_post(uid, pid, lo, "ok")

LoadFaultAddComment ==
  \E uid \in FileUserIds, pid \in PostIds, content \in {"c1"}, lo \in LoadOutcomes :
    /\ IssueFile([op |-> "add_comment", uid |-> uid, pid |-> pid,
                  content |-> content, load |-> lo])
    /\ F_add_comment(uid, pid, content, lo, "ok")

LoadFaultStartup ==
  \E lo \in LoadOutcomes :
    /\ IssueFile([op |-> "startup", load |-> lo])
    /\ F_initialize_data(lo, "ok")
    /\ UNCHANGED respF

NextLoad ==
  \/ LoadFaultRegister
  \/ LoadFaultCreatePost
  \/ LoadFaultLikePost
  \/ LoadFaultAddComment
  \/ LoadFaultStartup

SpecLoad == Init /\ [][NextLoad]_vars

\* ------------------------------ sequential requests under a moving clock
\* datetime.utcnow() reads the system's wall clock, which runs on between two
\* requests and which an adjustment may set back.
SetClock ==
  /\ \E t \in 0..MaxTime : t # now /\ now' = t
  /\ UNCHANGED <<fileVars, dbVars, seqVars, nops, procs>>

TimedIssue(r) ==
  /\ nops < MaxTimedOps
  /\ nops' = nops + 1
  /\ req' = r
  /\ UNCHANGED <<now, procs>>

TimedCreatePost ==
  \E uid \in FileUserIds \cap DbUserIds, title \in Titles, content \in {"c1"} :
    /\ TimedIssue([op |-> "create_post", uid |-> uid, title |-> title,
                   content |-> content])
    /\ F_create_post(uid, title, content, "ok", "ok")
    /\ D_create_post(uid, title, content)

TimedAddComment ==
  \E uid \in FileUserIds \cap DbUserIds, pid \in PostIds, content \in {"c1"} :
    /\ TimedIssue([op |-> "add_comment", uid |-> uid, pid |-> pid,
                   content |-> content])
    /\ F_add_comment(uid, pid, content, "ok", "ok")
    /\ D_add_comment(uid, pid, content)

NextTime ==
  \/ SetClock
  \/ TimedCreatePost
  \/ TimedAddComment

SpecTime == Init /\ [][NextTime]_vars

\* -------------------- concurrent requests on the tables (src/main.py)
\* Each request runs on its own connection, and psycopg2 opens a transaction
\* at its first statement: what it wrote is seen by the others at its commit
\* (READ COMMITTED, the server's default).  like_post is followed statement by
\* statement; create_post and admin_delete_post run as one step.  A
\* transaction in flight is at its SELECT, at its DELETE / INSERT (k = 1 when
\* the SELECT found a like) or at its commit (k = 1 when it deleted, else buf
\* holds the row it inserted).
DbRequests(uids) ==
  [op : {"create_post"}, uid : uids, title : Titles, content : Contents]
  \cup [op : {"like_post"}, uid : uids, pid : PostIds]
  \cup [op : {"delete_post"}, uid : uids, pid : PostIds]

\* Transaction q holds an uncommitted INSERT or DELETE of a like of post pid.
PendingOnPost(q, pid) ==
  procs[q].pc.stage = "commit" /\ procs[q].req.pid = pid

\* ... of the like of uid on post pid: a second writer of that row, or of
\* that key of the unique index, waits until q ends.
PendingOnPair(q, uid, pid) ==
  PendingOnPost(q, pid) /\ procs[q].req.uid = uid

\* A request arrives; create_post and admin_delete_post run to their commit.
\* DELETE FROM posts waits for the transactions that reference the post.
DbStart(p) ==
  /\ Free(p)
  /\ nops < MaxReqs
  /\ nops' = nops + 1
  /\ \E r \in DbRequests(DbUserIds) :
       CASE r.op = "create_post" ->
              /\ D_create_post(r.uid, r.title, r.content)
              /\ procs' = [procs EXCEPT ![p] =
                             [pc |-> At("done", 0), req |-> r, buf |-> <<>>, resp |-> respD']]
         [] r.op = "delete_post" ->
              /\ \A q \in Procs : ~PendingOnPost(q, r.pid)
              /\ D_admin_delete_post(r.uid, r.pid)
              /\ procs' = [procs EXCEPT ![p] =
                             [pc |-> At("done", 0), req |-> r, buf |-> <<>>, resp |-> respD']]
         [] r.op = "like_post" ->
              /\ procs' = [procs EXCEPT ![p] =
                             [pc |-> At("select", 0), req |-> r, buf |-> <<>>,
                              resp |-> NoResponse]]
              /\ UNCHANGED <<dbVars, respD>>
  /\ UNCHANGED <<fileVars, req, respF, now>>

\* like_post: SELECT id FROM likes WHERE user_id = .. AND post_id = ..
DbSelect(p) ==
  /\ procs[p].pc.stage = "select"
  /\ LET r == procs[p].req
         found == \E l \in dLikes : l.user_id = r.uid /\ l.post_id = r.pid
     IN procs' = [procs EXCEPT ![p].pc = At("write", IF found THEN 1 ELSE 0)]
  /\ UNCHANGED <<fileVars, dbVars, seqVars, now, nops>>

\* like_post: the DELETE, or the INSERT.  An INSERT that breaks UNIQUE or
\* REFERENCES raises, and the except branch answers 'Failed to like post'.
DbWrite(p) ==
  /\ procs[p].pc.stage = "write"
  /\ LET r   == procs[p].req
         row == [id |-> dSeq.likes + 1, user_id |-> r.uid, post_id |-> r.pid,
                 created_at |-> now]
     IN /\ \A q \in Procs \ {p} : ~PendingOnPair(q, r.uid, r.pid)
        /\ IF procs[p].pc.k = 1
           THEN /\ procs' = [procs EXCEPT ![p].pc = At("commit", 1)]
                /\ UNCHANGED dbVars
           ELSE /\ dSeq' = Bump(dSeq, "likes")
                /\ procs' = [procs EXCEPT ![p] =
                     IF fk_ok(dUsers, r.uid) /\ fk_ok(dPosts, r.pid)
                        /\ likes_unique_ok(dLikes, row)
                     THEN [@ EXCEPT !.pc = At("commit", 0), !.buf = <<row>>]
                     ELSE [pc |-> At("done", 0), req |-> r, buf |-> <<>>,
                           resp |-> LikeFailed]]
                /\ UNCHANGED <<dUsers, dPosts, dLikes, dComments>>
  /\ UNCHANGED <<fileVars, seqVars, now, nops>>

\* like_post: conn.commit(), and the redirect.
DbCommit(p) ==
  /\ procs[p].pc.stage = "commit"
  /\ LET r == procs[p].req IN
     /\ dLikes' = IF procs[p].pc.k = 1
                  THEN {l \in dLikes : ~(l.user_id = r.uid /\ l.post_id = r.pid)}
                  ELSE dLikes \cup {procs[p].buf[1]}
     /\ procs' = [procs EXCEPT ![p] =
                    [pc |-> At("done", 0), req |-> r, buf |-> <<>>,
                     resp |-> Liked(procs[p].pc.k = 0)]]
  /\ UNCHANGED <<fileVars, dUsers, dPosts, dComments, dSeq, seqVars, now, nops>>

NextDb == \E p \in Procs : DbStart(p) \/ DbSelect(p) \/ DbWrite(p) \/ DbCommit(p)

SpecDb == Init /\ [][NextDb]_vars

\* ------------------------------------------------------------ claims
\* A step that issues the request r' of kind op.
Issued(op) == nops' = nops + 1 /\ req'.op = op

FileLikeCount(likes, uid, pid) ==
  Cardinality({i \in DOMAIN likes : likes[i].user_id = uid /\ likes[i].post_id = pid})

DbLikeCount(likes, uid, pid) ==
  Cardinality({l \in likes : l.user_id = uid /\ l.post_id = pid})

FilePostIds == {fPosts[i].id : i \in DOMAIN fPosts}
DbPostIds   == {p.id : p \in dPosts}

\* C4: sequential toggle_like calls on a (user, post) pair return liked =
\* true exactly when no Like of the pair was stored, leave 1 Like of the pair
\* stored when they return true and 0 when they return false, and two
\* consecutive calls on the same pair return opposite values; in the
\* relational backend for every stored post, in the flat files for every id.
C4_ToggleAlternates ==
  [][Issued("like_post") =>
       LET u == req'.uid
           p == req'.pid
       IN /\ respF' = Liked(FileLikeCount(fLikes, u, p) = 0)
          /\ FileLikeCount(fLikes', u, p) = (IF respF'.liked THEN 1 ELSE 0)
          /\ p \in DbPostIds =>
               /\ respD' = Liked(DbLikeCount(dLikes, u, p) = 0)
               /\ DbLikeCount(dLikes', u, p) = (IF respD'.liked THEN 1 ELSE 0)
          /\ (req.op = "like_post" /\ req.uid = u /\ req.pid = p) =>
               /\ respF'.liked = ~respF.liked
               /\ (respD.status = "success" /\ respD'.status = "success")
                    => respD'.liked = ~respD.liked
   ]_vars

\* The third call of true, false, true on a stored post: the relational
\* sequence has handed out its second like id and one Like is stored.
C4_Witness ==
  /\ req.op = "like_post" /\ req.pid \in DbPostIds
  /\ respF = Liked(TRUE) /\ respD = Liked(TRUE)
  /\ dSeq.likes = 2 /\ dSeq.posts = 1 /\ Cardinality(dLikes) = 1 /\ Len(fLikes) = 1

UsersNamed(users, username) ==
  Cardinality({i \in DOMAIN users : users[i].username = username})

DbUsersNamed(users, username) == Cardinality({u \in users : u.username = username})

\* C5 as stated: of two consecutive register calls with the same username,
\* whatever their emails and passwords, the second is rejected as a duplicate
\* and leaves Users unchanged, and exactly one User of that name is stored.
C5_AnySecondCallRejected ==
  [][(Issued("register") /\ req.op = "register" /\ req'.username = req.username) =>
       /\ respF' = UsernameExists /\ fUsers' = fUsers
       /\ respD' = UsernameExists /\ dUsers' = dUsers
       /\ UsersNamed(fUsers', req'.username) = 1
       /\ DbUsersNamed(dUsers', req'.username) = 1
   ]_vars

\* C5 amended: a register call whose username is already stored (the first
\* call succeeded, or the name was taken before) is rejected as a duplicate
\* and leaves Users unchanged; a call that follows a successful register of
\* the same username is rejected; and after every register call exactly one
\* User of a name is stored if the call succeeded or the name was stored
\* before, none otherwise.
C5_RegisterTwice ==
  [][Issued("register") =>
       LET n == req'.username IN
       /\ UsersNamed(fUsers, n) > 0 => respF' = UsernameExists /\ fUsers' = fUsers
       /\ DbUsersNamed(dUsers, n) > 0 => respD' = UsernameExists /\ dUsers' = dUsers
       /\ (req.op = "register" /\ req.username = n /\ respF = Registered)
            => respF' = UsernameExists /\ fUsers' = fUsers
       /\ (req.op = "register" /\ req.username = n /\ respD = Registered)
            => respD' = UsernameExists /\ dUsers' = dUsers
       /\ UsersNamed(fUsers', n) =
            (IF respF' = Registered \/ UsersNamed(fUsers, n) > 0 THEN 1 ELSE 0)
       /\ DbUsersNamed(dUsers', n) =
            (IF respD' = Registered \/ DbUsersNamed(dUsers, n) > 0 THEN 1 ELSE 0)
   ]_vars

\* A second register of a stored username, with another email, rejected.
C5_Witness ==
  /\ req.op = "register"
  /\ respF = UsernameExists /\ respD = UsernameExists
  /\ \E i \in DOMAIN fUsers :
       fUsers[i].username = req.username /\ fUsers[i].email # req.email
  /\ \E u \in dUsers : u.username = req.username /\ u.email # req.email

\* C6: right after delete_post(p) has answered 'Post deleted', post_detail(p)
\* answers 'Post not found' and no stored Like or Comment has post_id = p,
\* in both backends.
C6_DeleteRemovesPost ==
  req.op = "delete_post" =>
    /\ respF = PostDeleted =>
         /\ post_detail(fPosts, fUsers, fLikes, fComments, req.pid) = PostNotFound
         /\ \A i \in DOMAIN fLikes : fLikes[i].post_id # req.pid
         /\ \A i \in DOMAIN fComments : fComments[i].post_id # req.pid
    /\ respD = PostDeleted =>
         /\ db_post_detail(dPosts, dUsers, dLikes, dComments, req.pid) = PostNotFound
         /\ \A l \in dLikes : l.post_id # req.pid
         /\ \A c \in dComments : c.post_id # req.pid

\* A post was created, liked and commented, and then deleted.
C6_Witness ==
  /\ req.op = "delete_post" /\ req.pid = 1
  /\ respF = PostDeleted /\ respD = PostDeleted
  /\ dSeq.posts = 1 /\ dSeq.likes = 1 /\ dSeq.comments = 1
  /\ fLikes = <<>> /\ fComments = <<>> /\ fPosts = <<>>
  /\ dLikes = {} /\ dComments = {} /\ dPosts = {}

\* C7: in every reachable state of either backend every stored Like and
\* every stored Comment has the post_id of a stored Post.
C7_RefsExist ==
  /\ \A i \in DOMAIN fLikes : fLikes[i].post_id \in FilePostIds
  /\ \A i \in DOMAIN fComments : fComments[i].post_id \in FilePostIds
  /\ \A l \in dLikes : l.post_id \in DbPostIds
  /\ \A c \in dComments : c.post_id \in DbPostIds

\* The password a stored user registered with, read off its digest.
RegisteredPassword(u) == u.password_hash[2]

\* What authenticate must answer: the Identity of the stored user of that
\* name when the password is the one it registered with, and otherwise the
\* one Invalid result, for an unknown name as for a wrong password.
Authenticated(resp, users, r) ==
  IF \E u \in users : u.username = r.username /\ RegisteredPassword(u) = r.password
  THEN /\ resp.status = "identity" /\ resp.username = r.username
       /\ \E u \in users : u.username = r.username /\ u.id = resp.id
                           /\ u.is_admin = resp.is_admin
  ELSE resp = InvalidLogin

\* C10: authenticate answers an Identity exactly when a User of that name is
\* stored and the password matches its hash, answers the same Invalid result
\* for an unknown name and for a wrong password, and changes nothing stored.
C10_Authenticate ==
  [][Issued("login") =>
       /\ Authenticated(respF', Range(fUsers), req')
       /\ Authenticated(respD', dUsers, req')
       /\ UNCHANGED <<fileVars, dbVars>>
   ]_vars

\* A registered user logging in with a wrong password.
C10_Witness ==
  /\ req.op = "login" /\ req.username \in Usernames
  /\ \E i \in DOMAIN fUsers : fUsers[i].username = req.username
  /\ \E u \in dUsers : u.username = req.username
  /\ respF = InvalidLogin /\ respD = InvalidLogin

\* At most one Like per (user_id, post_id) in a likes list.
LikesUnique(likes) ==
  \A i, j \in DOMAIN likes :
    i # j => ~(likes[i].user_id = likes[j].user_id /\ likes[i].post_id = likes[j].post_id)

\* Process p is between the load and the save of a toggle that found no Like
\* of its pair in the list it loaded.
ObservedAbsent(p) ==
  /\ procs[p].req.op = "like_post"
  /\ procs[p].pc = At("save", 1)
  /\ ~existing_like(procs[p].buf, procs[p].req.uid, procs[p].req.pid)

\* C1: under concurrent toggle_like requests of one user on one stored post
\* the likes file never holds two Likes of the pair, and the load-check-
\* modify-save cycle is serialized: never are two toggles of the pair both
\* past a load that found the Like absent and both about to save their insert.
C1_TogglesSerialized ==
  /\ LikesUnique(fLikes)
  /\ \A p, q \in Procs :
       (p # q /\ ObservedAbsent(p) /\ ObservedAbsent(q)) =>
         ~(/\ procs[p].req.uid = procs[q].req.uid
           /\ procs[p].req.pid = procs[q].req.pid
           /\ procs[p].req.pid \in FilePostIds)

\* The uniqueness half of C1 alone.
C1_LikesUniqueInFile == LikesUnique(fLikes)

UsersUnique(users) ==
  \A i, j \in DOMAIN users :
    i # j => users[i].username # users[j].username /\ users[i].email # users[j].email

Done(p, op) == procs[p].pc.stage = "done" /\ procs[p].req.op = op

\* C2: no two stored Users share a username or an email, and a create that
\* would break this is rejected: never have two register requests with the
\* same username, or the same email, both been answered 'Registration
\* successful'.
C2_UniqueUsersRejected ==
  /\ UsersUnique(fUsers)
  /\ \A p, q \in Procs :
       (p # q /\ Done(p, "register") /\ Done(q, "register")
        /\ procs[p].resp = Registered /\ procs[q].resp = Registered) =>
         /\ procs[p].req.username # procs[q].req.username
         /\ procs[p].req.email # procs[q].req.email

\* The uniqueness half of C2 alone.
C2_UsersUniqueInFile == UsersUnique(fUsers)

\* C3: when two requests that write the same file have both finished, the
\* effect of each is in the file: two add_comment calls leave two comments,
\* two create_post calls two posts, two successful register calls two new
\* users, and a toggle_like that answered liked leaves its Like whatever a
\* delete_post of another post did meanwhile.
C3_NoLostUpdate ==
  (nops = 2 /\ \A p \in Procs : procs[p].pc.stage = "done") =>
    \A p, q \in Procs : p # q =>
      /\ (Done(p, "add_comment") /\ Done(q, "add_comment")) => Len(fComments) = 2
      /\ (Done(p, "create_post") /\ Done(q, "create_post")) => Len(fPosts) = 2
      /\ (Done(p, "register") /\ Done(q, "register")
          /\ procs[p].resp = Registered /\ procs[q].resp = Registered)
           => Len(fUsers) = Len(initialize_data(<<>>, 0)) + 2
      /\ (Done(p, "like_post") /\ procs[p].resp = Liked(TRUE)
          /\ Done(q, "delete_post") /\ procs[q].req.pid # procs[p].req.pid)
           => FileLikeCount(fLikes, procs[p].req.uid, procs[p].req.pid) = 1

\* C8: a delete_post(p) that a store fault interrupts removes post p only
\* when no Like and no Comment with post_id = p is left stored.
C8_DeleteOrphanSafe ==
  [][(Issued("delete_post") /\ req'.pid \in FilePostIds
      /\ req'.pid \notin {fPosts'[i].id : i \in DOMAIN fPosts'}) =>
       /\ \A i \in DOMAIN fLikes' : fLikes'[i].post_id # req'.pid
       /\ \A i \in DOMAIN fComments' : fComments'[i].post_id # req'.pid
   ]_vars

\* C9: register, create_post, toggle_like, add_comment and delete_post
\* answer success only when what they wrote is in the store.
C9_SuccessMeansPersisted ==
  /\ (req.op = "register" /\ respF = Registered) =>
       \E i \in DOMAIN fUsers :
         /\ fUsers[i].username = req.username /\ fUsers[i].email = req.email
         /\ fUsers[i].password_hash = generate_password_hash(req.password)
  /\ (req.op = "create_post" /\ respF = PostCreated) =>
       \E i \in DOMAIN fPosts :
         /\ fPosts[i].user_id = req.uid /\ fPosts[i].title = req.title
         /\ fPosts[i].content = req.content
  /\ (req.op = "like_post" /\ respF.status = "success") =>
       FileLikeCount(fLikes, req.uid, req.pid) = (IF respF.liked THEN 1 ELSE 0)
  /\ (req.op = "add_comment" /\ respF = CommentAdded) =>
       \E i \in DOMAIN fComments :
         /\ fComments[i].user_id = req.uid /\ fComments[i].post_id = req.pid
         /\ fComments[i].content = req.content
  /\ (req.op = "delete_post" /\ respF = PostDeleted) =>
       /\ req.pid \notin FilePostIds
       /\ \A i \in DOMAIN fLikes : fLikes[i].post_id # req.pid
       /\ \A i \in DOMAIN fComments : fComments[i].post_id # req.pid

DbLikesUnique(likes) ==
  \A l, m \in likes : (l.user_id = m.user_id /\ l.post_id = m.post_id) => l = m

\* C11: under concurrent toggle_like requests on the tables, likes never
\* holds two rows of one (user_id, post_id) pair; a request that found the
\* like absent and whose INSERT meets a committed row of the pair fails on
\* UNIQUE(user_id, post_id), changes nothing and is answered with the error,
\* and a request is answered liked only when its row is the one of the pair.
C11_UniqueMakesOneFail ==
  [][/\ DbLikesUnique(dLikes')
     /\ \A p \in Procs :
          LET r == procs[p].req IN
          /\ (procs[p].pc = At("write", 0) /\ procs'[p].pc # procs[p].pc
              /\ DbLikeCount(dLikes, r.uid, r.pid) > 0) =>
               /\ procs'[p].resp = LikeFailed
               /\ procs'[p].pc = At("done", 0)
               /\ dLikes' = dLikes
          /\ (procs[p].pc = At("commit", 0) /\ procs'[p].pc # procs[p].pc) =>
               /\ procs'[p].resp = Liked(TRUE)
               /\ DbLikeCount(dLikes, r.uid, r.pid) = 0
               /\ DbLikeCount(dLikes', r.uid, r.pid) = 1
   ]_vars

\* Two toggles of one pair both found the like absent (each drew a like id)
\* and both inserted: one is answered liked, the other with the error.
C11_Witness ==
  \E p, q \in Procs :
    /\ p # q /\ Done(p, "like_post") /\ Done(q, "like_post")
    /\ procs[p].req = procs[q].req /\ procs[p].req.pid \in DbPostIds
    /\ procs[p].resp = Liked(TRUE) /\ procs[q].resp = LikeFailed
    /\ dSeq.likes = 2
    /\ DbLikeCount(dLikes, procs[p].req.uid, procs[p].req.pid) = 1

\* C12: a newly created post is listed by list_posts with like_count = 0 and
\* comment_count = 0, whatever requests preceded its creation, in both
\* backends.
C12_NewPostCountsZero ==
  [][Issued("create_post") =>
       /\ respF' = PostCreated =>
            LET listed == get_posts(fPosts', fUsers', fLikes', fComments') IN
            \E i \in DOMAIN listed :
              /\ listed[i].id = fPosts'[Len(fPosts')].id
              /\ listed[i].like_count = 0 /\ listed[i].comment_count = 0
       /\ respD' = PostCreated =>
            \A listed \in db_get_posts(dPosts', dUsers', dLikes', dComments') :
              \E i \in DOMAIN listed :
                /\ listed[i].id = dSeq'.posts
                /\ listed[i].like_count = 0 /\ listed[i].comment_count = 0
   ]_vars

\* The stored records of post pid, counted from the store.
StoredOfPost(rows, pid) == Len(SelectSeq(rows, LAMBDA r : r.post_id = pid))

DbStoredOfPost(rows, pid) == Cardinality({r \in rows : r.post_id = pid})

\* The listing holds each stored post id exactly once and nothing else, each
\* with the number of stored Likes and Comments of that post_id.
FileListsExactly(listed, posts, likes, comments) ==
  /\ Len(listed) = Cardinality({posts[i].id : i \in DOMAIN posts})
  /\ \A k \in DOMAIN posts :
       /\ Cardinality({i \in DOMAIN listed : listed[i].id = posts[k].id}) = 1
       /\ \A i \in DOMAIN listed :
            listed[i].id = posts[k].id =>
              /\ listed[i].like_count = StoredOfPost(likes, posts[k].id)
              /\ listed[i].comment_count = StoredOfPost(comments, posts[k].id)

\* The same of the rows that the relational get_posts orders into its list.
DbListsExactly(rows, posts, likes, comments) ==
  /\ Cardinality(rows) = Cardinality({q.id : q \in posts})
  /\ \A q \in posts :
       /\ Cardinality({r \in rows : r.id = q.id}) = 1
       /\ \A r \in rows :
            r.id = q.id => /\ r.like_count = DbStoredOfPost(likes, q.id)
                           /\ r.comment_count = DbStoredOfPost(comments, q.id)

DbListedLikes(rows, pid) == (CHOOSE r \in rows : r.id = pid).like_count

ListedLikes(listed, pid) ==
  listed[CHOOSE i \in DOMAIN listed : listed[i].id = pid].like_count

\* C13: list_posts returns each stored Post exactly once, with like_count the
\* number of stored Likes and comment_count the number of stored Comments of
\* that post_id; a toggle_like on a listed post that returns true raises the
\* post's like_count by exactly 1 and one that returns false lowers it by
\* exactly 1.  Both backends, sequential requests.
C13_ListCounts ==
  [][\A before \in {get_posts(fPosts, fUsers, fLikes, fComments)},
        after \in {get_posts(fPosts', fUsers', fLikes', fComments')},
        rows \in {db_posts_rows(dPosts, dUsers, dLikes, dComments)},
        rows2 \in {db_posts_rows(dPosts', dUsers', dLikes', dComments')} :
       /\ FileListsExactly(after, fPosts', fLikes', fComments')
       /\ DbListsExactly(rows2, dPosts', dLikes', dComments')
       /\ (Issued("like_post") /\ req'.pid \in FilePostIds) =>
            ListedLikes(after, req'.pid) =
              ListedLikes(before, req'.pid) + (IF respF'.liked THEN 1 ELSE -1)
       /\ (Issued("like_post") /\ respD'.status = "success") =>
            DbListedLikes(rows2, req'.pid) =
              DbListedLikes(rows, req'.pid) + (IF respD'.liked THEN 1 ELSE -1)
   ]_vars

\* A commented post was liked and then unliked: listed with like_count 0 and
\* comment_count 1.
C13_Witness ==
  /\ req.op = "like_post" /\ respF = Liked(FALSE) /\ respD = Liked(FALSE)
  /\ req.pid \in FilePostIds \cap DbPostIds
  /\ \E i \in DOMAIN get_posts(fPosts, fUsers, fLikes, fComments) :
       LET row == get_posts(fPosts, fUsers, fLikes, fComments)[i] IN
       row.id = req.pid /\ row.like_count = 0 /\ row.comment_count = 1
  /\ \E r \in db_posts_rows(dPosts, dUsers, dLikes, dComments) :
       r.id = req.pid /\ r.like_count = 0 /\ r.comment_count = 1

\* C14: the sequence list_posts returns is sorted by created_at descending:
\* of two listed posts created at t1 < t2 the one created at t2 comes first.
\* Both backends; the flat files store created_at as an isoformat string.
C14_ListedNewestFirst ==
  /\ LET listed == get_posts(fPosts, fUsers, fLikes, fComments) IN
     \A i, j \in DOMAIN listed :
       fromisoformat(listed[i].created_at) < fromisoformat(listed[j].created_at)
         => j < i
  /\ \A listed \in db_get_posts(dPosts, dUsers, dLikes, dComments) :
       \A i, j \in DOMAIN listed :
         listed[i].created_at < listed[j].created_at => j < i

\* Three posts stored in an order that is neither ascending nor descending
\* in created_at, one created on a whole second.
C14_Witness ==
  /\ Len(fPosts) = 3 /\ Cardinality(dPosts) = 3
  /\ fromisoformat(fPosts[1].created_at) < fromisoformat(fPosts[3].created_at)
  /\ fromisoformat(fPosts[3].created_at) < fromisoformat(fPosts[2].created_at)
  /\ \E i \in DOMAIN fPosts : Len(fPosts[i].created_at) = 1
  /\ \E i \in DOMAIN fPosts : Len(fPosts[i].created_at) = 2

\* C15: get_post_detail(p) returns exactly the stored Comments with
\* post_id = p, each once, sorted by created_at ascending: of two comments
\* created at t1 < t2 the one created at t1 comes first, and no comment of
\* another post appears.  Both backends, for every stored post p.
C15_CommentsOldestFirst ==
  /\ \A k \in DOMAIN fPosts :
       LET detail == post_detail(fPosts, fUsers, fLikes, fComments, fPosts[k].id)
           shown  == detail.comments
       IN /\ {shown[i].id : i \in DOMAIN shown} =
               {fComments[i].id : i \in {j \in DOMAIN fComments :
                                           fComments[j].post_id = fPosts[k].id}}
          /\ Len(shown) = StoredOfPost(fComments, fPosts[k].id)
          /\ \A i, j \in DOMAIN shown :
               fromisoformat(shown[i].created_at) < fromisoformat(shown[j].created_at)
                 => i < j
  /\ \A q \in dPosts :
       \A shown \in db_post_comments(dComments, dUsers, q.id) :
          /\ {shown[i].id : i \in DOMAIN shown} =
               {c.id : c \in {d \in dComments : d.post_id = q.id}}
          /\ Len(shown) = DbStoredOfPost(dComments, q.id)
          /\ \A i, j \in DOMAIN shown :
               shown[i].created_at < shown[j].created_at => i < j

\* A stored post with two comments, the later stored one created earlier
\* and within the same second.
C15_Witness ==
  /\ Len(fComments) = 2 /\ Cardinality(dComments) = 2
  /\ fComments[1].post_id = fComments[2].post_id
  /\ fComments[1].post_id \in FilePostIds \cap DbPostIds
  /\ fComments[1].created_at[1] = fComments[2].created_at[1]
  /\ fromisoformat(fComments[2].created_at) < fromisoformat(fComments[1].created_at)

\* The user the startup seed creates.
IsSeedUser(u) == u.username = AdminName /\ u.email = AdminEmail /\ u.is_admin

\* C16: register creates the User with is_admin = false, no request changes
\* is_admin or any other field of a stored User (every stored User is stored
\* unchanged after every step), and the only users with is_admin = true are
\* those the startup seed created.  Both backends, sequential requests.
C16_AdminOnlyBySeed ==
  [][/\ Len(fUsers') >= Len(fUsers)
     /\ \A i \in DOMAIN fUsers : fUsers'[i] = fUsers[i]
     /\ dUsers \subseteq dUsers'
     /\ \A i \in DOMAIN fUsers' : fUsers'[i].is_admin => IsSeedUser(fUsers'[i])
     /\ \A u \in dUsers' : u.is_admin => IsSeedUser(u)
     /\ Issued("register") =>
          /\ \A i \in DOMAIN fUsers' \ DOMAIN fUsers : ~fUsers'[i].is_admin
          /\ \A u \in dUsers' \ dUsers : ~u.is_admin
   ]_vars

\* A user registered, and a later request by that user went through.
C16_Witness ==
  /\ req.op = "create_post" /\ req.uid # 1
  /\ respF = PostCreated /\ respD = PostCreated
  /\ \E i \in DOMAIN fUsers : fUsers[i].id = req.uid /\ ~fUsers[i].is_admin
  /\ \E u \in dUsers : u.id = req.uid /\ ~u.is_admin

\* C17: startup initialization creates a user named "admin" with is_admin =
\* true exactly when no user named "admin" is stored; run again when "admin"
\* exists it leaves the Users collection unchanged; at most one user named
\* "admin" is ever stored, and every previously stored user is kept.
C17_SeedIdempotent ==
  [][/\ UsersNamed(fUsers', AdminName) <= 1
     /\ DbUsersNamed(dUsers', AdminName) <= 1
     /\ Issued("startup") =>
          /\ \A i \in DOMAIN fUsers : fUsers'[i] = fUsers[i]
          /\ dUsers \subseteq dUsers'
          /\ IF UsersNamed(fUsers, AdminName) > 0 THEN fUsers' = fUsers
             ELSE /\ Len(fUsers') = Len(fUsers) + 1
                  /\ IsSeedUser(fUsers'[Len(fUsers')])
          /\ IF DbUsersNamed(dUsers, AdminName) > 0 THEN dUsers' = dUsers
             ELSE /\ Cardinality(dUsers') = Cardinality(dUsers) + 1
                  /\ \E u \in dUsers' \ dUsers : IsSeedUser(u)
   ]_vars

\* The server restarted on a store that holds "admin" and a registered user.
C17_Witness ==
  /\ req.op = "startup" /\ nops >= 3
  /\ UsersNamed(fUsers, AdminName) = 1 /\ DbUsersNamed(dUsers, AdminName) = 1
  /\ Len(fUsers) = 2 /\ Cardinality(dUsers) = 2

\* C18: a Post is removed only by delete_post invoked with an identity whose
\* is_admin is true; delete_post invoked by a non-admin identity is denied
\* and leaves Posts, Likes and Comments unchanged; no other request removes
\* or modifies a stored Post.  Both backends, sequential requests.
C18_OnlyAdminDeletes ==
  [][/\ \A i \in DOMAIN fPosts :
          \/ \E j \in DOMAIN fPosts' : fPosts'[j] = fPosts[i]
          \/ /\ Issued("delete_post") /\ req'.pid = fPosts[i].id
             /\ \E k \in DOMAIN fUsers : fUsers[k].id = req'.uid /\ fUsers[k].is_admin
             /\ fPosts[i].id \notin {fPosts'[j].id : j \in DOMAIN fPosts'}
     /\ \A q \in dPosts :
          \/ q \in dPosts'
          \/ /\ Issued("delete_post") /\ req'.pid = q.id
             /\ \E u \in dUsers : u.id = req'.uid /\ u.is_admin
             /\ q.id \notin {r.id : r \in dPosts'}
     /\ (Issued("delete_post")
         /\ ~\E k \in DOMAIN fUsers : fUsers[k].id = req'.uid /\ fUsers[k].is_admin) =>
          respF' = AccessDenied /\ UNCHANGED fileVars
     /\ (Issued("delete_post")
         /\ ~\E u \in dUsers : u.id = req'.uid /\ u.is_admin) =>
          respD' = AccessDenied /\ UNCHANGED dbVars
   ]_vars

\* A registered user who is no admin asked to delete a stored post.
C18_Witness ==
  /\ req.op = "delete_post" /\ req.uid \in FileUserIds \cap DbUserIds
  /\ ~file_is_admin(req.uid) /\ ~db_is_admin(req.uid)
  /\ respF = AccessDenied /\ respD = AccessDenied
  /\ req.pid \in FilePostIds \cap DbPostIds

\* The records of a flat file as rows, created_at read back as a time.
FileAsRows(file) ==
  {[file[i] EXCEPT !.created_at = fromisoformat(@)] : i \in DOMAIN file}

\* C19: the two backends are interchangeable: after every sequential sequence
\* of register, create_post, toggle_like, add_comment and delete_post calls
\* from the same initial state, calls that name a post id that does not exist
\* included, both have given the same result and hold the same sets of users,
\* posts, likes and comments, list the same posts and answer get_post_detail
\* alike.
C19_BackendsAgree ==
  /\ respF = respD
  /\ FileAsRows(fUsers) = dUsers
  /\ FileAsRows(fPosts) = dPosts
  /\ FileAsRows(fLikes) = dLikes
  /\ FileAsRows(fComments) = dComments
  /\ FileAsRows(get_posts(fPosts, fUsers, fLikes, fComments))
       = db_posts_rows(dPosts, dUsers, dLikes, dComments)
  /\ \A pid \in PostIds :
       (post_detail(fPosts, fUsers, fLikes, fComments, pid) = PostNotFound)
         <=> (db_post_detail(dPosts, dUsers, dLikes, dComments, pid) = PostNotFound)

IdsUnique(file) == \A i, j \in DOMAIN file : file[i].id = file[j].id => i = j

DbIdsUnique(rows) == \A r, q \in rows : r.id = q.id => r = q

\* A file that grew by one record: the record's id is 1 if the file was
\* empty, else the largest stored id plus one, and no stored record's id.
FileCreateOk(old, new) ==
  Len(new) = Len(old) + 1 =>
    /\ new[Len(new)].id \notin {old[i].id : i \in DOMAIN old}
    /\ new[Len(new)].id =
         (IF old = <<>> THEN 1
          ELSE (CHOOSE m \in {old[i].id : i \in DOMAIN old} :
                  \A i \in DOMAIN old : old[i].id <= m) + 1)

DbCreateOk(old, new) == \A r \in new \ old : r.id \notin {q.id : q \in old}

\* C20: create assigns an id that differs from the id of every stored record
\* of the same kind (flat files: 1 for an empty collection, else the maximum
\* stored id plus one), and no two stored records of one kind share an id.
\* Users, posts, likes and comments of both backends, sequential requests.
C20_FreshIds ==
  [][/\ IdsUnique(fUsers') /\ IdsUnique(fPosts')
     /\ IdsUnique(fLikes') /\ IdsUnique(fComments')
     /\ DbIdsUnique(dUsers') /\ DbIdsUnique(dPosts')
     /\ DbIdsUnique(dLikes') /\ DbIdsUnique(dComments')
     /\ FileCreateOk(fUsers, fUsers') /\ FileCreateOk(fPosts, fPosts')
     /\ FileCreateOk(fLikes, fLikes') /\ FileCreateOk(fComments, fComments')
     /\ DbCreateOk(dUsers, dUsers') /\ DbCreateOk(dPosts, dPosts')
     /\ DbCreateOk(dLikes, dLikes') /\ DbCreateOk(dComments, dComments')
   ]_vars

\* A post created after the first of two posts was deleted.
C20_Witness ==
  /\ req.op = "create_post" /\ respF = PostCreated /\ respD = PostCreated
  /\ FilePostIds = {2, 3} /\ DbPostIds = {2, 3}

\* Every record of the file before is a record of the file after.
RecordsKept(before, after) ==
  \A i \in DOMAIN before : \E j \in DOMAIN after : after[j] = before[i]

\* C21: a register, create_post, add_comment, toggle_like or startup
\* initialization whose load of a collection fails does not write the
\* collection back: every record stored before it is still stored after it.
C21_LoadFaultKeepsData ==
  [][(nops' = nops + 1 /\ req'.load = "fault") =>
       /\ RecordsKept(fUsers, fUsers') /\ RecordsKept(fPosts, fPosts')
       /\ RecordsKept(fLikes, fLikes') /\ RecordsKept(fComments, fComments')
   ]_vars

\* The records of a file that do not belong to post pid, in their order.
PostsBut(posts, pid) == SelectSeq(posts, LAMBDA q : q.id # pid)

RefsBut(rows, pid) == SelectSeq(rows, LAMBDA r : r.post_id # pid)

\* C22: delete_post(p) leaves every User, every Post with id other than p
\* and every Like and Comment whose post_id is not p unchanged; toggle_like
\* changes only the Likes collection; add_comment changes only the Comments
\* collection, and when it answers 'Comment added' it has appended exactly
\* one Comment, of the caller on the named post, with the given content.
\* Both backends, sequential requests.
C22_FrameEffects ==
  [][/\ Issued("delete_post") =>
          LET p == req'.pid IN
          /\ fUsers' = fUsers /\ dUsers' = dUsers
          /\ PostsBut(fPosts', p) = PostsBut(fPosts, p)
          /\ RefsBut(fLikes', p) = RefsBut(fLikes, p)
          /\ RefsBut(fComments', p) = RefsBut(fComments, p)
          /\ {q \in dPosts' : q.id # p} = {q \in dPosts : q.id # p}
          /\ {l \in dLikes' : l.post_id # p} = {l \in dLikes : l.post_id # p}
          /\ {c \in dComments' : c.post_id # p} = {c \in dComments : c.post_id # p}
     /\ Issued("like_post") =>
          /\ UNCHANGED <<fUsers, fPosts, fComments>>
          /\ UNCHANGED <<dUsers, dPosts, dComments>>
     /\ Issued("add_comment") =>
          /\ UNCHANGED <<fUsers, fPosts, fLikes>>
          /\ UNCHANGED <<dUsers, dPosts, dLikes>>
          /\ respF' = CommentAdded =>
               /\ Len(fComments') = Len(fComments) + 1
               /\ SubSeq(fComments', 1, Len(fComments)) = fComments
               /\ fComments'[Len(fComments')].content = req'.content
               /\ fComments'[Len(fComments')].post_id = req'.pid
               /\ fComments'[Len(fComments')].user_id = req'.uid
          /\ respD' = CommentAdded =>
               /\ dComments \subseteq dComments'
               /\ Cardinality(dComments' \ dComments) = 1
               /\ \A c \in dComments' \ dComments :
                    c.content = req'.content /\ c.post_id = req'.pid
                    /\ c.user_id = req'.uid
          /\ respD' # CommentAdded => dComments' = dComments
   ]_vars

\* Post 1 was deleted while post 2 and a comment on post 2 were stored.
C22_Witness ==
  /\ req.op = "delete_post" /\ req.pid = 1
  /\ respF = PostDeleted /\ respD = PostDeleted
  /\ FilePostIds = {2} /\ DbPostIds = {2}
  /\ \E i \in DOMAIN fComments : fComments[i].post_id = 2
  /\ \E c \in dComments : c.post_id = 2

====
